---- MODULE Spec2Model ----
(***************************************************************************)
(* A model of app.py: the sheet-name transforms, the date normaliser, the  *)
(* batch loop with its retry loop, and fill_excel_file.                    *)
(*                                                                         *)
(* Strings are sequences of characters.  A character is a one-character    *)
(* TLA+ string, except the non-ASCII ones, which are written               *)
(*   "e'"  U+00E9  e with acute          "E'"  U+00C9  E with acute        *)
(*   "'"   U+0301  combining acute       "sz"  U+00DF  sharp s             *)
(***************************************************************************)
EXTENDS Integers, Sequences, FiniteSets, TLC

VARIABLES
    \* ---- the sheet-name transforms called on one name
    name,        \* the argument of the next call
    key0,        \* normalize_excel_sheet_name of the name first drawn
    out,         \* the last call: [fn, arg, res], or NoCall
    \* ---- to_french_date and the label of lines 126-129
    record,      \* the invoice record at hand
    label,       \* the label built from it, or NoCall
    \* ---- the script: lines 234-270 and fill_excel_file
    pc,          \* "idle", "render", "extract", "load", "merge", "write",
                 \* "done", or "aborted" (an exception ended the run)
    run,         \* clicks on "Lancer le traitement" so far
    uploaded,    \* invoices uploaded over all runs
    invoices,    \* how many invoices this run uploaded
    idx,         \* the invoice of the batch loop, 1..invoices
    attempt,     \* the attempt of the retry loop, 1..3
    data,        \* the request built for this invoice
    sent,        \* the requests sent for this invoice
    response,    \* the response of the last call
    list_invoices_dict,
    file,        \* the workbook file: a sequence of [title, rows]
    sheets,      \* the workbook in memory, in dict order
    normalized_names,
    k,           \* records merged so far in fill_excel_file
    loads,       \* reads of the workbook file this run
    writes,      \* writes of the workbook file this run
    placed,      \* the sheet_name each merged record went to, this run
    resolved     \* every <<normalized company name, sheet_name>> so far

namesVars == <<name, key0, out>>
dateVars == <<record, label>>
loopVars == <<invoices, idx, attempt, data, sent, response, list_invoices_dict>>
bookVars == <<file, sheets, normalized_names, k, loads, writes, placed, resolved>>
scriptVars == <<pc, run, uploaded, loopVars, bookVars>>
vars == <<namesVars, dateVars, scriptVars>>

NoCall == [fn |-> "none"]

\* ---------------------------------------------------------------- bounds
MaxLen == 3        \* characters drawn freely in a name
MaxRuns == 2       \* clicks on the button
MaxInvoices == 2   \* invoices uploaded over all the runs

\* ------------------------------------------------------------ characters
LowerAscii ==
    {"a","b","c","d","e","f","g","h","i","j","k","l","m",
     "n","o","p","q","r","s","t","u","v","w","x","y","z"}
UpperAscii ==
    {"A","B","C","D","E","F","G","H","I","J","K","L","M",
     "N","O","P","Q","R","S","T","U","V","W","X","Y","Z"}
Digits == {"0","1","2","3","4","5","6","7","8","9"}
NonAscii == {"e'", "E'", "'", "sz"}

LowerSeq ==
    <<"a","b","c","d","e","f","g","h","i","j","k","l","m",
      "n","o","p","q","r","s","t","u","v","w","x","y","z">>
UpperSeq ==
    <<"A","B","C","D","E","F","G","H","I","J","K","L","M",
      "N","O","P","Q","R","S","T","U","V","W","X","Y","Z">>
LetterIndex(seq, c) == CHOOSE i \in 1..26 : seq[i] = c

\* str.upper() and str.lower() on one character; sharp s uppercases to "SS"
CharUpper(c) ==
    CASE c \in LowerAscii -> <<UpperSeq[LetterIndex(LowerSeq, c)]>>
      [] c = "e'" -> <<"E'">>
      [] c = "sz" -> <<"S", "S">>
      [] OTHER    -> <<c>>

CharLower(c) ==
    CASE c \in UpperAscii -> <<LowerSeq[LetterIndex(UpperSeq, c)]>>
      [] c = "E'" -> <<"e'">>
      [] OTHER    -> <<c>>

\* unicodedata.normalize("NFKD", .) on one character
CharNFKD(c) ==
    CASE c = "e'" -> <<"e", "'">>
      [] c = "E'" -> <<"E", "'">>
      [] OTHER    -> <<c>>

\* name.upper(), name.lower() and unicodedata.normalize("NFKD", name)
Upper(s) ==
    LET f[i \in 0..Len(s)] == IF i = 0 THEN << >> ELSE f[i-1] \o CharUpper(s[i])
    IN  f[Len(s)]
Lower(s) ==
    LET f[i \in 0..Len(s)] == IF i = 0 THEN << >> ELSE f[i-1] \o CharLower(s[i])
    IN  f[Len(s)]
NFKD(s) ==
    LET f[i \in 0..Len(s)] == IF i = 0 THEN << >> ELSE f[i-1] \o CharNFKD(s[i])
    IN  f[Len(s)]

Keep(S, s) == SelectSeq(s, LAMBDA c : c \in S)
Drop(S, s) == SelectSeq(s, LAMBDA c : c \notin S)
Prefix(s, n) == SubSeq(s, 1, IF Len(s) < n THEN Len(s) ELSE n)

\* ------------------------------------------------- lines 18-33 and 36-53
SheetNameCap == 31
forbidden_chars == {":", "/", "\\", "?", "*", "[", "]", ","}

\* the cut taken before the uppercasing instead of after it
sanitize_cut_before_upper(n) ==
    Upper(Prefix(Drop(forbidden_chars, n), SheetNameCap))

sanitize_excel_sheet_name(n) ==
    LET clean_name == Upper(Drop(forbidden_chars, n))
    IN  Prefix(clean_name, SheetNameCap)

\* the accents not decomposed before the ASCII encoding
normalize_without_nfkd(n) ==
    Keep(LowerAscii \cup Digits, Lower(Drop(NonAscii, n)))

normalize_excel_sheet_name(n) ==
    LET decoded == Drop(NonAscii, NFKD(n))
        lowered == Lower(decoded)
    IN  Keep(LowerAscii \cup Digits, lowered)

\* ----------------------------------------------------------- lines 56-71
DigitSeq == <<"0","1","2","3","4","5","6","7","8","9">>
DigitVal(c) == (CHOOSE i \in 1..10 : DigitSeq[i] = c) - 1

CharClass(c) ==
    IF c \in Digits THEN "digit"
    ELSE IF c \in LowerAscii \cup UpperAscii THEN "alpha" ELSE "sep"

\* the lexer of parser.parse: maximal runs of digits and of letters, and
\* every other character a token of its own
Tokens(s) ==
    LET f[i \in 0..Len(s)] ==
          IF i = 0 THEN <<>>
          ELSE LET prev == f[i-1]
                   c    == s[i]
               IN  IF /\ prev # <<>>
                      /\ CharClass(c) # "sep"
                      /\ CharClass(prev[Len(prev)][1]) = CharClass(c)
                   THEN [prev EXCEPT ![Len(prev)] = @ \o <<c>>]
                   ELSE Append(prev, <<c>>)
    IN  f[Len(s)]

NumVal(tok) ==
    LET g[i \in 0..Len(tok)] ==
          IF i = 0 THEN 0 ELSE g[i-1] * 10 + DigitVal(tok[i])
    IN  g[Len(tok)]

IsLeap(y) == (y % 4 = 0 /\ y % 100 # 0) \/ y % 400 = 0
DaysInMonth(y, m) ==
    IF m = 2 THEN (IF IsLeap(y) THEN 29 ELSE 28)
    ELSE IF m \in {4, 6, 9, 11} THEN 30 ELSE 31

NoDate == [ok |-> FALSE, y |-> 0, m |-> 0, d |-> 0]

\* the year/month/day order parser.parse settles on for three numbers; a
\* number written with more than two digits is the year
ResolveYmd(v, ystridx, dayfirst) ==
    IF v[1] > 31 \/ ystridx = 1
    THEN [ok |-> TRUE, y |-> v[1], m |-> v[2], d |-> v[3]]
    ELSE IF v[1] > 12 \/ (dayfirst /\ v[2] <= 12)
    THEN [ok |-> TRUE, y |-> v[3], m |-> v[2], d |-> v[1]]
    ELSE [ok |-> TRUE, y |-> v[3], m |-> v[1], d |-> v[2]]

\* parser.parse(date_str, dayfirst=...) on a string of letters, or of three
\* numbers (one of them the year in full) between "/" or "-"; ok = FALSE
\* stands for the ParserError it raises
ParseDate(s, dayfirst) ==
    LET toks == Tokens(s)
        nums == SelectSeq(toks, LAMBDA t : CharClass(t[1]) = "digit")
        v    == [i \in 1..Len(nums) |-> NumVal(nums[i])]
        yset == {i \in 1..Len(nums) : Len(nums[i]) > 2}
    IN  CASE toks = <<>> -> NoDate
          [] \E i \in 1..Len(toks) : CharClass(toks[i][1]) = "alpha" -> NoDate
          [] Len(nums) = 3 /\ Cardinality(yset) > 1 -> NoDate
          [] Len(nums) = 3 /\ Cardinality(yset) = 1 ->
               LET r == ResolveYmd(v, CHOOSE i \in yset : TRUE, dayfirst)
               IN  IF /\ r.y \in 1..9999
                      /\ r.m \in 1..12
                      /\ r.d \in 1..DaysInMonth(r.y, r.m)
                   THEN r ELSE NoDate

\* "%02d" and "%04d"
ZeroPad(n, width) ==
    [i \in 1..width |-> DigitSeq[((n \div (10 ^ (width - i))) % 10) + 1]]

\* dt.strftime("%d/%m/%Y")
Strftime(dt) ==
    ZeroPad(dt.d, 2) \o <<"/">> \o ZeroPad(dt.m, 2) \o <<"/">> \o ZeroPad(dt.y, 4)

\* parser.parse called with dayfirst=True
to_french_date_dayfirst(date_str) ==
    LET dt == ParseDate(date_str, TRUE)
    IN  IF dt.ok THEN [raised |-> FALSE, value |-> Strftime(dt)]
        ELSE [raised |-> FALSE, value |-> date_str]

\* the outcome of a call: the value returned, or raised = TRUE
to_french_date(date_str) ==
    LET dt == ParseDate(date_str, FALSE)
    IN  IF dt.ok THEN [raised |-> FALSE, value |-> Strftime(dt)]
        ELSE [raised |-> FALSE, value |-> date_str]

\* ---------------------------------------------------------- lines 125-129
Unknown == <<"U","n","k","n","o","w","n">>
Get(d, field, default) == IF field \in DOMAIN d THEN d[field] ELSE default

EmptyDict == [x \in {} |-> << >>]
Put(d, key, v) == [x \in DOMAIN d \cup {key} |-> IF x = key THEN v ELSE d[x]]

\* number, date and the label f"{number} du {date}" of one record
InvoiceLabel(invoice) ==
    LET number == Get(Get(invoice, "invoice_reference", EmptyDict), "number", Unknown)
        date   == Get(Get(invoice, "invoice_reference", EmptyDict), "date", Unknown)
        french == to_french_date(date)
    IN  [raised |-> french.raised,
         date   |-> date,
         french |-> french.value,
         text   |-> number \o <<" ","d","u"," ">> \o french.value]

\* ------------------------------------------------ the workbook, as a dict
None == <<"None">>
NaN == <<"NaN">>
COLUMNS ==
    <<"N FACTURE", "REF", "Article", "Quantite facturee", "Prix unitaire",
      "Total paye HT", "Stock entre en caisse", "Stock restant en caisse",
      "Boutique", "Casse ou echange">>

Titles(wb) == {wb[i].title : i \in DOMAIN wb}
IndexOf(wb, t) == CHOOSE i \in DOMAIN wb : wb[i].title = t
RowsOf(wb, t) == wb[IndexOf(wb, t)].rows
\* wb[t] = rows: a title already there keeps its place, a new one goes last
SetSheet(wb, t, rows) ==
    IF t \in Titles(wb) THEN [wb EXCEPT ![IndexOf(wb, t)].rows = rows]
    ELSE Append(wb, [title |-> t, rows |-> rows])

\* lines 153-155 then 117: a "" or None cell comes back as NaN, and the rows
\* after the last one holding a value do not come back
ReadCell(c) == IF c \in {<< >>, None, NaN} THEN NaN ELSE c
ReadRows(rows) ==
    LET cells == [i \in DOMAIN rows |-> [j \in DOMAIN rows[i] |-> ReadCell(rows[i][j])]]
        held  == {i \in DOMAIN cells : \E j \in DOMAIN cells[i] : cells[i][j] # NaN}
        last  == IF held = {} THEN 0 ELSE CHOOSE i \in held : \A j \in held : j <= i
    IN  SubSeq(cells, 1, last)
ReadExcel(f) ==
    [i \in DOMAIN f |-> [title |-> f[i].title, rows |-> ReadRows(f[i].rows)]]

\* line 121, the sheets taken in dict order
NormalizedNames(wb) ==
    LET f[i \in 0..Len(wb)] ==
          IF i = 0 THEN EmptyDict
          ELSE Put(f[i-1], normalize_excel_sheet_name(wb[i].title), wb[i].title)
    IN  f[Len(wb)]

\* lines 139-149
ArticleRows(invoice, invoice_number) ==
    LET articles == Get(invoice, "articles", << >>)
    IN  [i \in DOMAIN articles |->
           <<invoice_number,
             Get(articles[i], "reference", << >>),
             Get(articles[i], "designation", << >>),
             Get(articles[i], "quantity", None),
             Get(articles[i], "unit_price", None),
             Get(articles[i], "total_price", None),
             None, None, None, None>>]

\* line 150
empty_row == [j \in DOMAIN COLUMNS |-> << >>]

\* lines 130-138: the sheet a company name resolves to
ResolveSheet(names, company_name) ==
    LET normalized_company_name == normalize_excel_sheet_name(company_name)
    IN  IF normalized_company_name \in DOMAIN names
        THEN [found |-> TRUE,
              sheet_name |-> names[normalized_company_name],
              names |-> names]
        ELSE LET sheet_name == sanitize_excel_sheet_name(company_name)
             IN  [found |-> FALSE,
                  sheet_name |-> sheet_name,
                  names |-> Put(names, normalize_excel_sheet_name(sheet_name),
                                sheet_name)]

\* lines 131-138 and 151: the rows the new rows are appended to
ExistingRows(wb, found, sheet_name) ==
    IF found THEN RowsOf(wb, sheet_name) ELSE << >>

\* ------------------------------------------------------ lines 251-269
MaxAttempts == 3

NoRequest == [model |-> "none"]
NoResponse == [kind |-> "none"]

\* lines 241-250
Request(list_images) ==
    [model |-> "gpt-4.1", input |-> list_images, tools |-> "extract_invoice_data",
     tool_choice |-> "extract_invoice_data", temperature |-> 0]

\* lines 255-265 on one response: the record decoded, or raised = TRUE when
\* the call, output[0], or one of the json.loads raises
Decode(resp) ==
    IF resp.kind = "function_call"
    THEN [raised |-> FALSE, value |-> resp.arguments]
    ELSE [raised |-> TRUE, value |-> EmptyDict]

\* range(1, 5): one attempt too many
RetryStep_four_attempts(raised, n) ==
    IF ~raised THEN "append"
    ELSE IF n < MaxAttempts + 1 THEN "retry" ELSE "give_up"

\* the record of the last failed attempt appended all the same
RetryStep_append_on_give_up(raised, n) ==
    IF ~raised THEN "append"
    ELSE IF n < MaxAttempts THEN "retry" ELSE "append"

\* lines 251, 266-269: what the loop does after one attempt
RetryStep(raised, n) ==
    IF ~raised THEN "append"
    ELSE IF n < MaxAttempts THEN "retry" ELSE "give_up"

\* fill_excel_file called inside the batch loop
AfterInvoice_merge_in_loop(i, n) == "load"

\* lines 239 and 270: what follows the retry loop of invoice i of n
AfterInvoice(i, n) == IF i < n THEN "render" ELSE "load"

\* lines 124 and 153: what follows the merge of record i of n
AfterMerge(i, n) == IF i < n THEN "merge" ELSE "write"

\* ---------------------------------------------------------------- inputs
Pad(n) == [i \in 1..n |-> "e"]

CompanyNames ==
    { <<"e'", " ", "e">>,                          \* short, accent and space
      <<"E", "-", "E">>,                           \* the same key, "ee"
      Pad(SheetNameCap) \o <<"7">>,                \* one more than the cap
      <<"e'">> \o Pad(SheetNameCap - 1) \o <<"7">>,\* the same key, accented
      Pad(SheetNameCap) }                          \* another company

Article1 ==
    [reference |-> <<"A","1">>, designation |-> <<"x">>, quantity |-> <<"2">>,
     unit_price |-> <<"1","0">>, total_price |-> <<"2","0">>]
Article2 ==
    [reference |-> None, designation |-> <<"y">>, quantity |-> <<"1">>,
     unit_price |-> <<"5">>, total_price |-> <<"5">>]

Payloads ==
    { [invoice_reference |->
         [number |-> <<"F","1">>,
          date |-> <<"0","3","/","1","4","/","2","0","2","4">>],
       articles |-> <<Article1, Article2>>],
      [invoice_reference |->
         [number |-> <<"F","2">>, date |-> <<"m","a","r","s">>],
       articles |-> <<Article2>>] }

Records ==
    { [company_name |-> c, invoice_reference |-> p.invoice_reference,
       articles |-> p.articles] : c \in CompanyNames, p \in Payloads }
    \cup { [articles |-> << >>] }

Responses ==
    { [kind |-> x] : x \in {"call_raises", "no_output", "no_arguments", "bad_json"} }
    \cup { [kind |-> "function_call", arguments |-> r] : r \in Records }

\* ------------------------------------------------------------ the script
NamesIdle == name = << >> /\ key0 = << >> /\ out = NoCall
DateIdle == record = EmptyDict /\ label = NoCall

ScriptInit ==
    /\ pc = "idle" /\ run = 0 /\ uploaded = 0
    /\ invoices = 0 /\ idx = 0 /\ attempt = 0
    /\ data = NoRequest /\ sent = << >> /\ response = NoResponse
    /\ list_invoices_dict = << >>
    /\ file = << >> /\ sheets = << >> /\ normalized_names = EmptyDict
    /\ k = 0 /\ loads = 0 /\ writes = 0 /\ placed = << >> /\ resolved = {}

Init == NamesIdle /\ DateIdle /\ ScriptInit

\* lines 234-238: the button; without invoices or workbook, st.error
Click ==
    /\ pc \in {"idle", "done", "aborted"}
    /\ run < MaxRuns
    /\ run' = run + 1
    /\ \E n \in 0..(MaxInvoices - uploaded), csv_file \in BOOLEAN :
         IF n = 0 \/ ~csv_file
         THEN /\ pc' = "idle"
              /\ UNCHANGED <<uploaded, loopVars, bookVars>>
         ELSE /\ pc' = "render"
              /\ uploaded' = uploaded + n
              /\ invoices' = n /\ idx' = 1 /\ attempt' = 0
              /\ data' = NoRequest /\ sent' = << >> /\ response' = NoResponse
              /\ list_invoices_dict' = << >>
              /\ sheets' = << >> /\ normalized_names' = EmptyDict
              /\ k' = 0 /\ loads' = 0 /\ writes' = 0 /\ placed' = << >>
              /\ UNCHANGED <<file, resolved>>
    /\ UNCHANGED <<namesVars, dateVars>>

\* lines 240-250, the document rendered: one image a page, then the request
RenderPages ==
    /\ pc = "render"
    /\ data' = Request(<<idx>>)
    /\ attempt' = 1 /\ sent' = << >> /\ response' = NoResponse
    /\ pc' = "extract"
    /\ UNCHANGED <<run, uploaded, invoices, idx, list_invoices_dict, bookVars>>
    /\ UNCHANGED <<namesVars, dateVars>>

\* line 240, fitz.open or get_pixmap raising, and line 242 on the None of
\* line 99: neither is inside a try
RenderFails ==
    /\ pc = "render"
    /\ \E outcome \in {"raises", "returns_none"} : pc' = "aborted"
    /\ UNCHANGED <<run, uploaded, loopVars, bookVars>>
    /\ UNCHANGED <<namesVars, dateVars>>

\* lines 251-269, one attempt
Attempt ==
    /\ pc = "extract"
    /\ \E resp \in Responses :
         LET invoice_dict == Decode(resp)
             step == RetryStep(invoice_dict.raised, attempt)
         IN  /\ sent' = Append(sent, data)
             /\ response' = resp
             /\ list_invoices_dict' =
                  IF step = "append"
                  THEN Append(list_invoices_dict, invoice_dict.value)
                  ELSE list_invoices_dict
             /\ IF step = "retry"
                THEN /\ attempt' = attempt + 1
                     /\ UNCHANGED <<pc, idx>>
                ELSE /\ idx' = idx + 1
                     /\ pc' = AfterInvoice(idx, invoices)
                     /\ UNCHANGED attempt
    /\ UNCHANGED <<run, uploaded, invoices, data, bookVars>>
    /\ UNCHANGED <<namesVars, dateVars>>

\* lines 113-121
Load ==
    /\ pc = "load"
    /\ sheets' = ReadExcel(file)
    /\ normalized_names' = NormalizedNames(sheets')
    /\ loads' = loads + 1
    /\ k' = 0
    /\ pc' = AfterMerge(0, Len(list_invoices_dict))
    /\ UNCHANGED <<run, uploaded, loopVars, file, writes, placed, resolved>>
    /\ UNCHANGED <<namesVars, dateVars>>

\* lines 124-152, one record
Merge ==
    /\ pc = "merge"
    /\ LET invoice == list_invoices_dict[k + 1]
           company_name == Get(invoice, "company_name", Unknown)
           lab == InvoiceLabel(invoice)
           res == ResolveSheet(normalized_names, company_name)
           df_existing == ExistingRows(sheets, res.found, res.sheet_name)
           df_new == ArticleRows(invoice, lab.text)
       IN  IF lab.raised
           THEN /\ pc' = "aborted"
                /\ UNCHANGED <<sheets, normalized_names, k, placed, resolved>>
           ELSE /\ normalized_names' = res.names
                /\ sheets' = SetSheet(sheets, res.sheet_name,
                                      df_existing \o <<empty_row>> \o df_new)
                /\ k' = k + 1
                /\ placed' = Append(placed, res.sheet_name)
                /\ resolved' = resolved \cup
                     {<<normalize_excel_sheet_name(company_name), res.sheet_name>>}
                /\ pc' = AfterMerge(k + 1, Len(list_invoices_dict))
    /\ UNCHANGED <<run, uploaded, loopVars, file, loads, writes>>
    /\ UNCHANGED <<namesVars, dateVars>>

\* lines 153-160
Write ==
    /\ pc = "write"
    /\ file' = sheets
    /\ writes' = writes + 1
    /\ pc' = "done"
    /\ UNCHANGED <<run, uploaded, loopVars, sheets, normalized_names, k, loads,
                   placed, resolved>>
    /\ UNCHANGED <<namesVars, dateVars>>

Next == Click \/ RenderPages \/ RenderFails \/ Attempt \/ Load \/ Merge \/ Write

Spec == Init /\ [][Next]_vars

\* ------------------------------------------- the sheet-name transforms alone
NameChars == {"e", "E", "e'", "E'", "7", " ", "-", ",", "sz"}
Separators == {" ", "-", ","}
\* characters of a name that are no letter with an ASCII base and no digit
OtherChars == Separators \cup {"sz"}
PadLens == {0, SheetNameCap - 2, SheetNameCap - 1, SheetNameCap}

\* the names drawn: up to MaxLen characters, alone or after a run of "e"
\* that brings the name to the cap of 31
InNames(s) ==
    \E p \in PadLens :
        /\ p <= Len(s) /\ Len(s) <= p + MaxLen
        /\ SubSeq(s, 1, p) = Pad(p)
        /\ \A i \in (p + 1)..Len(s) : s[i] \in NameChars
Names ==
    { Pad(p) \o t : p \in PadLens,
                    t \in UNION { [1..n -> NameChars] : n \in 0..MaxLen } }

SwapCase(c) ==
    CASE c = "e" -> "E" [] c = "E" -> "e" [] c = "e'" -> "E'" [] c = "E'" -> "e'"
      [] OTHER -> c
SwapAccent(c) ==
    CASE c = "e" -> "e'" [] c = "e'" -> "e" [] c = "E" -> "E'" [] c = "E'" -> "E"
      [] OTHER -> c
RemoveAt(s, i) == SubSeq(s, 1, i - 1) \o SubSeq(s, i + 1, Len(s))
InsertAt(s, i, c) == SubSeq(s, 1, i - 1) \o <<c>> \o SubSeq(s, i, Len(s))

\* the names one change of case, of accent, or of a character that is no
\* ASCII letter or digit away from s
Variants(s) ==
    { [s EXCEPT ![i] = SwapCase(s[i])] : i \in DOMAIN s }
    \cup { [s EXCEPT ![i] = SwapAccent(s[i])] : i \in DOMAIN s }
    \cup { RemoveAt(s, i) : i \in {j \in DOMAIN s : s[j] \in OtherChars} }
    \cup { InsertAt(s, i, c) : i \in 1..(Len(s) + 1), c \in OtherChars }

ScriptIdle == ScriptInit

InitNames ==
    /\ ScriptIdle /\ DateIdle
    /\ name \in Names
    /\ key0 = normalize_excel_sheet_name(name)
    /\ out = NoCall

Vary ==
    /\ \E v \in Variants(name) : v # name /\ InNames(v) /\ name' = v
    /\ out' = NoCall
    /\ UNCHANGED <<key0, dateVars, scriptVars>>

CallSanitize ==
    /\ out' = [fn |-> "sanitize", arg |-> name,
               res |-> sanitize_excel_sheet_name(name)]
    /\ UNCHANGED <<name, key0, dateVars, scriptVars>>

CallNormalize ==
    /\ out' = [fn |-> "normalize", arg |-> name,
               res |-> normalize_excel_sheet_name(name)]
    /\ UNCHANGED <<name, key0, dateVars, scriptVars>>

NextNames == Vary \/ CallSanitize \/ CallNormalize

SpecNames == InitNames /\ [][NextNames]_vars

\* --------------------------------------------------- to_french_date alone
DayMonthValues == {0, 1, 2, 3, 4, 12, 13, 29, 30, 31, 32}
YearValues == {2023, 2024}

Decimal(n, padded) ==
    IF n >= 1000 THEN ZeroPad(n, 4)
    ELSE IF n >= 10 \/ padded THEN ZeroPad(n, 2) ELSE ZeroPad(n, 1)
Written(a, b, c, sep, padded) ==
    Decimal(a, padded) \o <<sep>> \o Decimal(b, padded) \o <<sep>> \o Decimal(c, padded)

DateStrings ==
    { Written(f[1], f[2], f[3], sep, padded) :
        f \in (DayMonthValues \X DayMonthValues \X YearValues)
              \cup (YearValues \X DayMonthValues \X DayMonthValues)
              \cup (DayMonthValues \X YearValues \X DayMonthValues)
              \cup (YearValues \X DayMonthValues \X YearValues),
        sep \in {"/", "-"}, padded \in BOOLEAN }
    \cup { << >>, <<"m","a","r","s">>, <<"n","/","a">>,
           <<"1","4"," ","m","a","r","s"," ","2","0","2","4">> }

DateRecords ==
    { [invoice_reference |-> [number |-> <<"F","1">>, date |-> d]] : d \in DateStrings }
    \cup { [invoice_reference |-> [number |-> <<"F","1">>]], EmptyDict }

InitDate ==
    /\ ScriptIdle /\ NamesIdle
    /\ record \in DateRecords
    /\ label = NoCall

\* lines 126-129 on the record
BuildLabel ==
    /\ label = NoCall
    /\ label' = InvoiceLabel(record)
    /\ UNCHANGED <<record, namesVars, scriptVars>>

NextDate == BuildLabel

SpecDate == InitDate /\ [][NextDate]_vars

\* ================================================================ claims
IsPrefix(s, t) == Len(s) <= Len(t) /\ SubSeq(t, 1, Len(s)) = s
IsSuffix(s, t) == Len(s) <= Len(t) /\ SubSeq(t, Len(t) - Len(s) + 1, Len(t)) = s
CompanyOf(invoice) == Get(invoice, "company_name", Unknown)
KeyOf(invoice) == normalize_excel_sheet_name(CompanyOf(invoice))

\* C1: company names with the same normalized key resolve to the same
\* worksheet title, within a run and across runs, and a company whose key
\* was resolved before is found in the key-to-title mapping again.
C1_OneSheetPerKey ==
    /\ \A p \in resolved, q \in resolved : p[1] = q[1] => p[2] = q[2]
    /\ pc = "merge" =>
         LET key == KeyOf(list_invoices_dict[k + 1])
         IN  (\E p \in resolved : p[1] = key) => key \in DOMAIN normalized_names

\* C2: a merge step only appends: every worksheet held before the step is
\* held after it, with its rows as a prefix of the rows it has afterwards.
C2_AppendOnly ==
    [][pc = "merge" =>
         \A t \in Titles(sheets) :
             /\ t \in Titles(sheets')
             /\ IsPrefix(RowsOf(sheets, t), RowsOf(sheets', t))]_vars

\* C3: two invoices of one run with the same normalized key end in one
\* worksheet, which ends with the rows of the first, one blank row, and the
\* rows of the second.
C3_TwoInvoicesOneSheet ==
    (/\ pc = "done"
     /\ Len(list_invoices_dict) = 2
     /\ KeyOf(list_invoices_dict[1]) = KeyOf(list_invoices_dict[2]))
    => LET first  == list_invoices_dict[1]
           second == list_invoices_dict[2]
       IN  /\ placed[1] = placed[2]
           /\ IsSuffix(ArticleRows(first, InvoiceLabel(first).text)
                         \o <<empty_row>>
                         \o ArticleRows(second, InvoiceLabel(second).text),
                       RowsOf(sheets, placed[2]))

\* C4: a document that cannot be rendered is skipped: the step that fails
\* to render invoice idx passes to the next invoice, or to the merge after
\* the last one, and leaves the records as they are.
C4_RenderFailureSkipped ==
    [][(pc = "render" /\ pc' # "extract") =>
         /\ idx' = idx + 1
         /\ pc' = AfterInvoice(idx, invoices)
         /\ list_invoices_dict' = list_invoices_dict]_vars

C5_Calls ==
    /\ Len(sent) <= 3
    /\ \A i \in DOMAIN sent : sent[i] = data /\ data = Request(<<idx - (IF pc = "extract" THEN 0 ELSE 1)>>)
    /\ invoices > 0 => Len(list_invoices_dict) <= idx - 1
    /\ response.kind = "function_call" =>
         /\ pc # "extract"
         /\ list_invoices_dict # << >>
         /\ list_invoices_dict[Len(list_invoices_dict)] = response.arguments
C5_Step ==
    /\ Len(list_invoices_dict') <= Len(list_invoices_dict) + 1
    /\ Len(list_invoices_dict') = Len(list_invoices_dict) + 1 =>
         /\ pc = "extract" /\ idx' = idx + 1
         /\ response'.kind = "function_call"
         /\ IsPrefix(list_invoices_dict, list_invoices_dict')
    /\ (pc = "extract" /\ pc' = "extract") =>
         response'.kind # "function_call" /\ Len(sent') = Len(sent) + 1
\* C5: an invoice gets at most 3 calls, all with the request built for it,
\* none after a successful one, and at most one record, appended by the
\* successful call; the record is the one the response decodes to, whatever
\* the attempt that received it.
C5_RetryTransparency == [][C5_Step /\ C5_Calls']_vars

C5_ThirdAttemptSucceeds ==
    /\ Len(sent) = 3
    /\ response.kind = "function_call"
    /\ list_invoices_dict = <<response.arguments>>
    /\ idx = 2

C6_GiveUpStep ==
    (pc = "extract" /\ attempt = 3 /\ sent' # sent
       /\ response'.kind # "function_call") =>
         /\ list_invoices_dict' = list_invoices_dict
         /\ idx' = idx + 1
         /\ pc' = (IF idx < invoices THEN "render" ELSE "load")
C6_NoAbort ==
    /\ pc = "extract" => pc' # "aborted"
    /\ pc \in {"load", "merge", "write"} => pc' \in {"merge", "write", "done"}
C6_Reaches ==
    /\ pc = "merge" => k + 1 \in DOMAIN list_invoices_dict
    /\ pc \in {"load", "merge", "write", "done"} =>
         /\ idx = invoices + 1
         /\ Len(list_invoices_dict) <= invoices
    /\ pc = "done" => k = Len(list_invoices_dict) /\ writes = 1
C7_Counts ==
    /\ loads <= 1 /\ writes <= 1
    /\ pc \in {"merge", "write"} => loads = 1 /\ writes = 0
    /\ pc = "done" => loads = 1 /\ writes = 1
    /\ pc \in {"load", "merge", "write", "done"} => idx = invoices + 1
    /\ pc \in {"write", "done"} => k = Len(list_invoices_dict)
C7_FileStep ==
    (file' # file \/ writes' > writes) =>
        /\ pc = "write" /\ writes = 0 /\ loads = 1
        /\ idx = invoices + 1
        /\ k = Len(list_invoices_dict)
        /\ file' = sheets
\* C7: a run reads the workbook file at most once and writes it at most
\* once; the file changes only in the write, which comes after the retry
\* loop of every invoice has ended and every record is merged; a run that
\* ends has read it once and written it once.
C7_WrittenOnceAtTheEnd == [][C7_FileStep /\ C7_Counts']_vars

C7_RunWritten ==
    /\ pc = "done" /\ writes = 1 /\ loads = 1
    /\ run = 2 /\ invoices = 1 /\ Len(list_invoices_dict) = 1
    /\ file = sheets /\ Len(file) = 2

\* C8: sanitize_excel_sheet_name returns at most 31 characters, none of
\* them one of : / \ ? * [ ] , and the result is the name without those
\* characters, uppercased, cut to its first 31 characters.
C8_Sanitize ==
    out.fn = "sanitize" =>
        /\ Len(out.res) <= 31
        /\ \A i \in DOMAIN out.res :
               out.res[i] \notin {":", "/", "\\", "?", "*", "[", "]", ","}
        /\ LET kept  == SelectSeq(out.arg, LAMBDA c : c \notin {":", "/", "\\", "?", "*", "[", "]", ","})
               upper == Upper(kept)
           IN  out.res = SubSeq(upper, 1, IF Len(upper) < 31 THEN Len(upper) ELSE 31)

C8_LongNameCut ==
    /\ out.fn = "sanitize"
    /\ Len(out.arg) > 31
    /\ \E i \in DOMAIN out.arg : out.arg[i] = ","
    /\ \E i \in DOMAIN out.arg : out.arg[i] = "sz"
    /\ Len(out.res) = 31

\* C9: names that differ in case, in accents, or in characters that are no
\* ASCII letter or digit (spaces, hyphens, punctuation) only have
\* the same key; the key holds lowercase ASCII letters and digits only, one
\* for every letter or digit of the name however long the name is, and the
\* key of a key is the key.
C9_Normalize ==
    out.fn = "normalize" =>
        /\ out.res = key0
        /\ \A i \in DOMAIN out.res : out.res[i] \in LowerAscii \cup Digits
        /\ Len(out.res) = Len(SelectSeq(out.arg, LAMBDA c : c \in {"e", "E", "e'", "E'", "7"}))
        /\ normalize_excel_sheet_name(out.res) = out.res

C9_LongVariant ==
    /\ out.fn = "normalize"
    /\ Len(out.res) > 31
    /\ \E i \in DOMAIN out.arg : out.arg[i] = "E'"
    /\ \E i \in DOMAIN out.arg : out.arg[i] = "-"

IsDDMMYYYY(s, dt) ==
    /\ Len(s) = 10
    /\ s[3] = "/" /\ s[6] = "/"
    /\ \A i \in {1, 2, 4, 5, 7, 8, 9, 10} : s[i] \in Digits
    /\ NumVal(SubSeq(s, 1, 2)) = dt.d
    /\ NumVal(SubSeq(s, 4, 5)) = dt.m
    /\ NumVal(SubSeq(s, 7, 10)) = dt.y
MonthFirst(date, french) ==
    LET nums == SelectSeq(Tokens(date), LAMBDA t : t[1] \in Digits)
    IN  (/\ Len(nums) = 3 /\ Len(nums[1]) <= 2 /\ Len(nums[2]) <= 2
         /\ NumVal(nums[1]) \in 1..12 /\ NumVal(nums[2]) \in 1..12)
        => /\ NumVal(SubSeq(french, 1, 2)) = NumVal(nums[2])
           /\ NumVal(SubSeq(french, 4, 5)) = NumVal(nums[1])
           /\ NumVal(SubSeq(french, 7, 10)) = NumVal(nums[3])
\* C10: to_french_date does not raise; a date that parses comes back as
\* DD/MM/YYYY, the first number taken as the month when both orders are
\* possible; a string that does not parse comes back as it is; and the
\* label is the number, " du " and that date.
C10_FrenchDate ==
    label # NoCall =>
        LET dt == ParseDate(label.date, FALSE)
            number == IF "invoice_reference" \in DOMAIN record
                         /\ "number" \in DOMAIN record.invoice_reference
                      THEN record.invoice_reference.number ELSE Unknown
        IN  /\ ~label.raised
            /\ dt.ok => IsDDMMYYYY(label.french, dt) /\ MonthFirst(label.date, label.french)
            /\ ~dt.ok => label.french = label.date
            /\ label.text = number \o <<" ", "d", "u", " ">> \o label.french

C10_AmbiguousDate ==
    /\ label # NoCall
    /\ label.date = <<"0","3","/","0","4","/","2","0","2","4">>
    /\ label.french = <<"0","4","/","0","3","/","2","0","2","4">>

====
